---- MODULE Spec2Model ----
(***************************************************************************)
(* Model of resumestate.py: locating the failed step of a Step Functions   *)
(* execution (parse_failure_history), building the resume state machine    *)
(* (attach_go_to_state) and starting it (main).                            *)
(***************************************************************************)
EXTENDS Integers, Sequences, FiniteSets, TLC

\* Bounds of the model.
MaxEvents == 4        \* longest execution history explored for the locator
MaxSkip == 1          \* previousEventId skips at most this many ids
MainMaxEvents == 3    \* longest execution history explored for a whole run of main

VARIABLES
    failed_events,            \* the pages the paginator will yield, in order
    pageIdx,                  \* number of pages consumed from the generator
    failed_at_parallel_state, \* flag of parse_failure_history
    current_event_id,         \* loop variable of the backward walk
    visited,                  \* trace of the lookups failed_event[-1 * id]
    outcome,                  \* how parse_failure_history ended
    pc,                       \* position in main / the called function
    calls,                    \* external operations issued so far, in order
    execution_arn,            \* os.getenv('EXECUTION_ARN'), split at ':'
    date_time,                \* module-level timestamp string
    failed_state_name,        \* first argument of attach_go_to_state
    state_machine_arn,        \* second argument of attach_go_to_state
    response,                 \* what describe_state_machine answered
    createRequest,            \* what was passed to create_state_machine
    new_machine_arn,          \* new_machine['stateMachineArn']
    exc                       \* the exception that ended the run ("" if none)

vars == <<failed_events, pageIdx, failed_at_parallel_state, current_event_id,
          visited, outcome, pc, calls, execution_arn, date_time,
          failed_state_name, state_machine_arn, response, createRequest,
          new_machine_arn, exc>>

locatorVars == <<failed_events, pageIdx, failed_at_parallel_state,
                 current_event_id, visited, outcome>>
builderVars == <<failed_state_name, state_machine_arn, response,
                 createRequest, new_machine_arn>>

-----------------------------------------------------------------------------
\* Execution events and histories

EventTypes == {"TaskStateEntered", "ParallelStateEntered",
               "ParallelStateFailed", "TaskFailed"}

\* executionFailedEventDetails of an event: present = the key is in the event,
\* empty = the dict has no entries, tokens = number of whitespace-delimited
\* tokens of cause, digits = the digits of token 13 of cause read as a number.
NoDetails == [present |-> FALSE, empty |-> TRUE, error |-> "",
              tokens |-> 0, digits |-> 0]
EmptyDetails == [present |-> TRUE, empty |-> TRUE, error |-> "",
                 tokens |-> 0, digits |-> 0]
TaskFailedDetails == [present |-> TRUE, empty |-> FALSE,
                      error |-> "States.TaskFailed", tokens |-> 3, digits |-> 0]
RuntimeDetails(tokens, digits) ==
    [present |-> TRUE, empty |-> FALSE, error |-> "States.Runtime",
     tokens |-> tokens, digits |-> digits]

HeadDetails(n) ==
    {EmptyDetails, TaskFailedDetails, RuntimeDetails(3, 0)}
        \cup {RuntimeDetails(14, k) : k \in 1..n}

StepName(id) == "S" \o ToString(id)
StepInput(id) == "in" \o ToString(id)

HasStateEntered(type) == type \in {"TaskStateEntered", "ParallelStateEntered"}

Event(id, prev, type, details) ==
    [id |-> id, previousEventId |-> prev, type |-> type,
     name |-> IF HasStateEntered(type) THEN StepName(id) ELSE "",
     input |-> IF HasStateEntered(type) THEN StepInput(id) ELSE "",
     executionFailedEventDetails |-> details]

Max(a, b) == IF a >= b THEN a ELSE b

\* A history of n events in reverse order (ids n..1): the head is the
\* ExecutionFailed event, every back-link points to a smaller id.
History(n, types, skips, head) ==
    [p \in 1..n |->
        LET id == n - p + 1
            prev == IF id = 1 THEN 0 ELSE Max(0, id - 1 - skips[id]) IN
        IF p = 1 THEN Event(id, prev, "ExecutionFailed", head)
        ELSE Event(id, prev, types[id], NoDetails)]

\* How the paginator delivers history h: the first page holds c events, the
\* second page the rest (one page when c = Len(h)).
Paginate(h, c) ==
    IF c = Len(h) THEN <<h>> ELSE <<SubSeq(h, 1, c), SubSeq(h, c + 1, Len(h))>>

\* The page sequences of histories of at most maxLen events, and the two
\* empty deliveries: no page at all, one page without events.
IsPageSequence(ps, maxLen) ==
    \/ ps \in {<< >>, << << >> >>}
    \/ \E n \in 1..maxLen :
         \E types \in [1..(n - 1) -> EventTypes], skips \in [2..n -> 0..MaxSkip],
            head \in HeadDetails(n), c \in 1..n :
             ps = Paginate(History(n, types, skips, head), c)

RECURSIVE Flatten(_)
Flatten(ps) == IF ps = << >> THEN << >> ELSE Head(ps) \o Flatten(Tail(ps))

-----------------------------------------------------------------------------
\* Outcomes of parse_failure_history

Running == [kind |-> "running", name |-> "", input |-> "", err |-> ""]
Return(name, input) == [kind |-> "return", name |-> name, input |-> input, err |-> ""]
ReturnNone == [kind |-> "none", name |-> "", input |-> "", err |-> ""]
Raise(err) == [kind |-> "raise", name |-> "", input |-> "", err |-> err]

-----------------------------------------------------------------------------
\* parse_failure_history, line by line

\* failed_event[-1 * id] is defined for 1 <= id <= len(failed_event)
IndexOk(page, id) == id >= 1 /\ id <= Len(page)

\* the lookup counted from the head of the page instead of its end
EventAtFromHead(page, id) == page[id]

\* failed_event[-1 * id]
EventAt(page, id) == page[Len(page) - id + 1]

\* int(filter(str.isdigit, str(cause.split()[13]))): the token must exist;
\* filter() yields a filter object and int() of it raises TypeError.
ParseFailedId(details) ==
    IF details.tokens < 14 THEN Raise("IndexError") ELSE Raise("TypeError")

\* Lines 45-63: what the head of a page decides; Running = go on to the walk.
InspectPage(page) ==
    IF Len(page) < 1 THEN Raise("no failed events")
    ELSE LET details == page[1].executionFailedEventDetails IN
         IF ~details.present THEN Raise("KeyError")
         ELSE IF details.empty THEN Raise("unexpected failed event")
         ELSE IF details.error = "States.Runtime" THEN ParseFailedId(details)
         ELSE Running

MarkParallel(flag, ev) == flag \/ ev.type = "ParallelStateFailed"

\* the task test without the parallel flag
IsTaskHitNoFlag(ev, flag) == ev.type = "TaskStateEntered"

IsTaskHit(ev, flag) == ev.type = "TaskStateEntered" /\ ~flag

\* the parallel test without the parallel flag
IsParallelHitNoFlag(ev, flag) == ev.type = "ParallelStateEntered"

IsParallelHit(ev, flag) == ev.type = "ParallelStateEntered" /\ flag

NextEventId(ev) == ev.previousEventId

\* One pass through the body of the while loop (lines 66-78).
WalkIteration(page, id, flag) ==
    IF ~IndexOk(page, id)
    THEN [out |-> Raise("IndexError"), id |-> id, flag |-> flag]
    ELSE LET ev == EventAt(page, id)
             f == MarkParallel(flag, ev) IN
         IF IsTaskHit(ev, f) \/ IsParallelHit(ev, f)
         THEN [out |-> Return(ev.name, ev.input), id |-> id, flag |-> f]
         ELSE [out |-> Running, id |-> NextEventId(ev), flag |-> f]

\* The whole while loop, as a function of the page.
RECURSIVE Walk(_, _, _)
Walk(page, id, flag) ==
    IF id = 0 THEN [out |-> Running, id |-> 0, flag |-> flag]
    ELSE LET r == WalkIteration(page, id, flag) IN
         IF r.out # Running THEN r ELSE Walk(page, r.id, r.flag)

\* The whole function, when every page is fetched without a service error.
RECURSIVE ParsePages(_, _)
ParsePages(ps, flag) ==
    IF ps = << >> THEN ReturnNone
    ELSE LET h == InspectPage(Head(ps)) IN
         IF h # Running THEN h
         ELSE LET w == Walk(Head(ps), Head(ps)[1].id, flag) IN
              IF w.out # Running THEN w.out ELSE ParsePages(Tail(ps), w.flag)

parse_failure_history(ps) == ParsePages(ps, FALSE)

LocatorDone == outcome # Running

\* for failed_event in failed_events: the generator fetches the next page
NextPage ==
    /\ pc = "iter"
    /\ pageIdx < Len(failed_events)
    /\ pageIdx' = pageIdx + 1
    /\ calls' = Append(calls, [op |-> "get_execution_history", arg |-> "", ok |-> TRUE])
    /\ pc' = "page"
    /\ UNCHANGED <<failed_events, failed_at_parallel_state, current_event_id,
                   visited, outcome, execution_arn, date_time, builderVars, exc>>

\* the fetch of the next page fails inside the generator
FetchFails ==
    /\ pc = "iter"
    /\ pageIdx < Len(failed_events)
    /\ calls' = Append(calls, [op |-> "get_execution_history", arg |-> "", ok |-> FALSE])
    /\ outcome' = Raise("ServiceError")
    /\ exc' = "ServiceError"
    /\ pc' = "raised"
    /\ UNCHANGED <<failed_events, pageIdx, failed_at_parallel_state,
                   current_event_id, visited, execution_arn, date_time, builderVars>>

\* the generator is exhausted: the for loop ends and the function returns None
EndOfPages ==
    /\ pc = "iter"
    /\ pageIdx = Len(failed_events)
    /\ outcome' = ReturnNone
    /\ pc' = "returned"
    /\ UNCHANGED <<failed_events, pageIdx, failed_at_parallel_state,
                   current_event_id, visited, calls, execution_arn, date_time,
                   builderVars, exc>>

\* lines 45-63 on the page just fetched
InspectHead ==
    /\ pc = "page"
    /\ LET page == failed_events[pageIdx]
           h == InspectPage(page) IN
       IF h # Running
       THEN /\ outcome' = h
            /\ exc' = h.err
            /\ pc' = "raised"
            /\ UNCHANGED current_event_id
       ELSE /\ current_event_id' = page[1].id
            /\ pc' = "walk"
            /\ UNCHANGED <<outcome, exc>>
    /\ UNCHANGED <<failed_events, pageIdx, failed_at_parallel_state, visited,
                   calls, execution_arn, date_time, builderVars>>

\* one iteration of while current_event_id != 0
WalkStep ==
    /\ pc = "walk"
    /\ current_event_id # 0
    /\ LET page == failed_events[pageIdx]
           r == WalkIteration(page, current_event_id, failed_at_parallel_state) IN
       /\ failed_at_parallel_state' = r.flag
       /\ current_event_id' = r.id
       /\ visited' = IF IndexOk(page, current_event_id)
                     THEN Append(visited, [cur |-> current_event_id,
                                           ev |-> EventAt(page, current_event_id)])
                     ELSE visited
       /\ IF r.out = Running
          THEN UNCHANGED <<outcome, exc, pc>>
          ELSE /\ outcome' = r.out
               /\ exc' = r.out.err
               /\ pc' = IF r.out.kind = "raise" THEN "raised" ELSE "returned"
    /\ UNCHANGED <<failed_events, pageIdx, calls, execution_arn, date_time,
                   builderVars>>

\* the while loop ends at id 0: back to the for loop
WalkExit ==
    /\ pc = "walk"
    /\ current_event_id = 0
    /\ pc' = "iter"
    /\ UNCHANGED <<locatorVars, calls, execution_arn, date_time, builderVars, exc>>

LocatorNext == NextPage \/ FetchFails \/ EndOfPages \/ InspectHead \/ WalkStep \/ WalkExit

-----------------------------------------------------------------------------
\* get_state_machine_arn_from_execution_arn

RECURSIVE Join(_)
Join(parts) ==
    IF parts = << >> THEN ""
    ELSE IF Len(parts) = 1 THEN parts[1]
    ELSE parts[1] \o ":" \o Join(Tail(parts))

\* parts = execution_arn.split(':'); "" stands for the IndexError of sm_arn[5]
get_state_machine_arn_from_execution_arn(parts) ==
    LET sm_arn == SubSeq(parts, 1, Len(parts) - 1) IN
    IF Len(sm_arn) < 6 THEN ""
    ELSE Join([sm_arn EXCEPT ![6] = "stateMachine"])

ExampleArn == <<"arn", "aws", "states", "us-east-1", "123", "execution", "MyMachine", "exec1">>

ExecutionArns == {ExampleArn, <<"exec1">>}

-----------------------------------------------------------------------------
\* attach_go_to_state

StepNames == {"A", "B", "GoToState"}

FailedStepNames == {"A", "B", "S1"}

\* json.dumps / json.loads: the definition travels as JSON text
json_dumps(obj) == [json |-> obj]
json_loads(text) == text.json

go_to_state(original_start_at, failed_name) ==
    [Type |-> "Choice",
     Choices |-> <<[Variable |-> "$.resuming", BooleanEquals |-> FALSE,
                    Next |-> original_start_at]>>,
     Default |-> failed_name]

\* the step bodies a source definition may hold
StepBodies ==
    {[Type |-> "Task", End |-> TRUE], go_to_state("A", "B")}

\* states[key] = value on a dict
SetItem(states, key, value) ==
    [k \in (DOMAIN states) \cup {key} |-> IF k = key THEN value ELSE states[k]]

\* StartAt overwritten before the original StartAt is read
MutateDefinitionStartFirst(state_machine, failed_name) ==
    LET started == [state_machine EXCEPT !.StartAt = "GoToState"] IN
    [started EXCEPT !.States = SetItem(@, "GoToState",
                                       go_to_state(started.StartAt, failed_name))]

\* lines 90-103: the definition after the mutation
MutateDefinition(state_machine, failed_name) ==
    LET original_start_at == state_machine.StartAt
        added == [state_machine EXCEPT
                    !.States = SetItem(@, "GoToState",
                                       go_to_state(original_start_at, failed_name))] IN
    [added EXCEPT !.StartAt = "GoToState"]

\* lines 89-110: the arguments of create_state_machine
CreateArguments(resp, failed_name, stamp) ==
    [name |-> resp.name \o "-resumeState-" \o stamp,
     definition |-> json_dumps(MutateDefinition(json_loads(resp.definition), failed_name)),
     roleArn |-> resp.roleArn]

\* what describe_state_machine can answer: a definition whose StartAt names
\* one of its states
SourceDefinitions ==
    UNION { { [StartAt |-> start, States |-> states] :
              start \in dom, states \in [dom -> StepBodies] } :
            dom \in (SUBSET StepNames) \ {{}} }

DescribeResponses ==
    { [name |-> "MyMachine", roleArn |-> role, definition |-> json_dumps(d)] :
      role \in {"role1"}, d \in SourceDefinitions }

NewMachineArns == {"arn:new1", "arn:new2"}

NoResponse == [name |-> "", roleArn |-> "", definition |-> json_dumps([StartAt |-> "", States |-> << >>])]
NoRequest == [name |-> "", definition |-> json_dumps([StartAt |-> "", States |-> << >>]), roleArn |-> ""]

Call(op, arg, ok) == [op |-> op, arg |-> arg, ok |-> ok]

\* client.describe_state_machine succeeds (lines 84-86)
Describe ==
    /\ pc = "describe"
    /\ \E r \in DescribeResponses :
         response' = r
    /\ calls' = Append(calls, Call("describe_state_machine", state_machine_arn, TRUE))
    /\ pc' = "create"
    /\ UNCHANGED <<locatorVars, execution_arn, date_time, failed_state_name,
                   state_machine_arn, createRequest, new_machine_arn, exc>>

\* client.describe_state_machine raises (lines 87-88)
DescribeFails ==
    /\ pc = "describe"
    /\ calls' = Append(calls, Call("describe_state_machine", state_machine_arn, FALSE))
    /\ exc' = "Could not get ASL definition of state machine"
    /\ pc' = "raised"
    /\ UNCHANGED <<locatorVars, execution_arn, date_time, builderVars>>

\* lines 89-110 and 113: the definition is mutated and registered
Create ==
    /\ pc = "create"
    /\ createRequest' = CreateArguments(response, failed_state_name, date_time)
    /\ \E arn \in NewMachineArns :
         /\ new_machine_arn' = arn
         /\ calls' = Append(calls, Call("create_state_machine", arn, TRUE))
    /\ pc' = "attached"
    /\ UNCHANGED <<locatorVars, execution_arn, date_time, failed_state_name,
                   state_machine_arn, response, exc>>

\* lines 89-112: client.create_state_machine raises
CreateFails ==
    /\ pc = "create"
    /\ createRequest' = CreateArguments(response, failed_state_name, date_time)
    /\ calls' = Append(calls, Call("create_state_machine", "", FALSE))
    /\ exc' = "Failed to create new state machine with GoToState"
    /\ pc' = "raised"
    /\ UNCHANGED <<locatorVars, execution_arn, date_time, failed_state_name,
                   state_machine_arn, response, new_machine_arn>>

BuilderNext == Describe \/ DescribeFails \/ Create \/ CreateFails

InitLocator ==
    /\ IsPageSequence(failed_events, MaxEvents)
    /\ pageIdx = 0
    /\ failed_at_parallel_state = FALSE
    /\ current_event_id = 0
    /\ visited = << >>
    /\ outcome = Running
    /\ pc = "iter"
    /\ calls = << >>
    /\ execution_arn = ExampleArn
    /\ date_time = "20240131-1405"
    /\ failed_state_name = ""
    /\ state_machine_arn = ""
    /\ response = NoResponse
    /\ createRequest = NoRequest
    /\ new_machine_arn = ""
    /\ exc = ""

SpecLocator == InitLocator /\ [][LocatorNext]_vars

InitBuilder ==
    /\ failed_events = << >>
    /\ pageIdx = 0
    /\ failed_at_parallel_state = FALSE
    /\ current_event_id = 0
    /\ visited = << >>
    /\ outcome = Running
    /\ pc = "describe"
    /\ calls = << >>
    /\ execution_arn = ExampleArn
    /\ date_time \in {"20240131-1405", "20240131-1406"}
    /\ failed_state_name \in FailedStepNames
    /\ state_machine_arn = get_state_machine_arn_from_execution_arn(ExampleArn)
    /\ response = NoResponse
    /\ createRequest = NoRequest
    /\ new_machine_arn = ""
    /\ exc = ""

SpecBuilder == InitBuilder /\ [][BuilderNext]_vars

-----------------------------------------------------------------------------
\* main

\* lines 19-21: the locator's result is unpacked and the state machine arn
\* derived; None cannot be unpacked, a short arn has no sixth component
MainLocated ==
    /\ pc = "returned"
    /\ IF outcome.kind # "return"
       THEN /\ exc' = "TypeError"
            /\ pc' = "raised"
            /\ UNCHANGED <<failed_state_name, state_machine_arn>>
       ELSE LET arn == get_state_machine_arn_from_execution_arn(execution_arn) IN
            IF arn = ""
            THEN /\ exc' = "IndexError"
                 /\ pc' = "raised"
                 /\ UNCHANGED <<failed_state_name, state_machine_arn>>
            ELSE /\ failed_state_name' = outcome.name
                 /\ state_machine_arn' = arn
                 /\ pc' = "describe"
                 /\ UNCHANGED exc
    /\ UNCHANGED <<locatorVars, calls, execution_arn, date_time, response,
                   createRequest, new_machine_arn>>

\* lines 22-24
MainAttached ==
    /\ pc = "attached"
    /\ pc' = "start"
    /\ UNCHANGED <<locatorVars, calls, execution_arn, date_time, builderVars, exc>>

\* the original machine started instead of the new one
StartTargetOriginal(arn) == state_machine_arn

\* the identifier start_new_state_machine_execution is called with
StartTarget(arn) == arn

\* lines 25, 115-120: client.start_execution succeeds
StartExecution ==
    /\ pc = "start"
    /\ calls' = Append(calls, Call("start_execution", StartTarget(new_machine_arn), TRUE))
    /\ pc' = "done"
    /\ UNCHANGED <<locatorVars, execution_arn, date_time, builderVars, exc>>

\* lines 121-122: client.start_execution raises
StartExecutionFails ==
    /\ pc = "start"
    /\ calls' = Append(calls, Call("start_execution", StartTarget(new_machine_arn), FALSE))
    /\ exc' = "Failed to start Execution"
    /\ pc' = "raised"
    /\ UNCHANGED <<locatorVars, execution_arn, date_time, builderVars>>

MainNext ==
    \/ LocatorNext
    \/ MainLocated
    \/ BuilderNext
    \/ MainAttached
    \/ StartExecution
    \/ StartExecutionFails

InitMain ==
    /\ IsPageSequence(failed_events, MainMaxEvents)
    /\ pageIdx = 0
    /\ failed_at_parallel_state = FALSE
    /\ current_event_id = 0
    /\ visited = << >>
    /\ outcome = Running
    /\ pc = "iter"
    /\ calls = << >>
    /\ execution_arn \in ExecutionArns
    /\ date_time = "20240131-1405"
    /\ failed_state_name = ""
    /\ state_machine_arn = ""
    /\ response = NoResponse
    /\ createRequest = NoRequest
    /\ new_machine_arn = ""
    /\ exc = ""

SpecMain == InitMain /\ [][MainNext]_vars

-----------------------------------------------------------------------------
\* Properties

\* The stepwise run ends as the function computes.
LocatorAgrees ==
    (LocatorDone /\ outcome # Raise("ServiceError"))
        => outcome = parse_failure_history(failed_events)

ServiceFailed == outcome = Raise("ServiceError")

\* The history came in one page whose head is a failure that is not a
\* runtime error.
GeneralHead(page) ==
    /\ page # << >>
    /\ page[1].type = "ExecutionFailed"
    /\ page[1].executionFailedEventDetails.present
    /\ ~page[1].executionFailedEventDetails.empty
    /\ page[1].executionFailedEventDetails.error # "States.Runtime"

SinglePage == Len(failed_events) = 1 /\ failed_events[1] # << >>

EventById(page, id) == CHOOSE e \in {page[i] : i \in 1..Len(page)} : e.id = id

\* The events linked from id along previousEventId, down to id 0.
RECURSIVE Chain(_, _)
Chain(page, id) ==
    IF id = 0 THEN << >>
    ELSE <<EventById(page, id)>> \o Chain(page, EventById(page, id).previousEventId)

\* Least index from `from` on whose event has the type; 0 when there is none.
FirstOfType(chain, type, from) ==
    LET hits == {i \in from..Len(chain) : chain[i].type = type} IN
    IF hits = {} THEN 0 ELSE CHOOSE i \in hits : \A j \in hits : i <= j

\* C1: in the general case on a one-page history, when the walk along
\* previousEventId meets a TaskStateEntered event before any
\* ParallelStateFailed event, the locator returns exactly that event's name
\* and input.
C1_TaskStepReturned ==
    (SinglePage /\ GeneralHead(failed_events[1]) /\ LocatorDone /\ ~ServiceFailed) =>
        LET page == failed_events[1]
            chain == Chain(page, page[1].id)
            t == FirstOfType(chain, "TaskStateEntered", 1)
            f == FirstOfType(chain, "ParallelStateFailed", 1) IN
        (t > 0 /\ (f = 0 \/ f > t)) => outcome = Return(chain[t].name, chain[t].input)

\* A task step was returned although an older task step is in the history and
\* a back-link skipped an event.
C1_Witness ==
    /\ SinglePage /\ GeneralHead(failed_events[1])
    /\ outcome.kind = "return"
    /\ Len(visited) >= 2
    /\ visited[Len(visited)].ev.type = "TaskStateEntered"
    /\ outcome.name = visited[Len(visited)].ev.name
    /\ \E i \in 1..Len(failed_events[1]) :
         /\ failed_events[1][i].type = "TaskStateEntered"
         /\ failed_events[1][i].id < visited[Len(visited)].ev.id
    /\ \E i \in 1..Len(visited) : visited[i].ev.previousEventId < visited[i].ev.id - 1

\* C2: once the walk has visited a ParallelStateFailed event, the locator
\* returns the first ParallelStateEntered event met after it, and never a
\* TaskStateEntered event visited after it.
C2_ParallelStepReturned ==
    (LocatorDone /\ ~ServiceFailed) =>
        /\ (SinglePage /\ GeneralHead(failed_events[1])) =>
             LET page == failed_events[1]
                 chain == Chain(page, page[1].id)
                 t == FirstOfType(chain, "TaskStateEntered", 1)
                 f == FirstOfType(chain, "ParallelStateFailed", 1)
                 e == IF f = 0 THEN 0 ELSE FirstOfType(chain, "ParallelStateEntered", f + 1) IN
             (f > 0 /\ (t = 0 \/ t > f) /\ e > 0)
                 => outcome = Return(chain[e].name, chain[e].input)
        /\ \A i, j \in 1..Len(visited) :
             (i < j /\ visited[i].ev.type = "ParallelStateFailed"
                    /\ visited[j].ev.type = "TaskStateEntered")
                 => outcome # Return(visited[j].ev.name, visited[j].ev.input)

\* The parallel step was returned after an inner task step was skipped.
C2_Witness ==
    /\ SinglePage
    /\ outcome.kind = "return"
    /\ visited[Len(visited)].ev.type = "ParallelStateEntered"
    /\ outcome.name = visited[Len(visited)].ev.name
    /\ \E i, j \in 1..Len(visited) :
         /\ i < j
         /\ visited[i].ev.type = "ParallelStateFailed"
         /\ visited[j].ev.type = "TaskStateEntered"

\* C3: when no page is delivered, or the first page has no events,
\* parse_failure_history raises 'no failed events' and never returns.
C3_EmptyHistoryRaises ==
    (LocatorDone /\ ~ServiceFailed
        /\ (failed_events = << >> \/ failed_events[1] = << >>))
        => outcome = Raise("no failed events")

\* C4: when the walk reaches id 0 without a qualifying event,
\* parse_failure_history ends in an error and does not return.
C4_ExhaustedWalkRaises ==
    (LocatorDone /\ ~ServiceFailed /\ Len(visited) > 0 /\ current_event_id = 0
        /\ outcome.kind # "return")
        => outcome.kind = "raise"

\* C5: in the runtime-error case with digits k in token 13 of the cause,
\* parse_failure_history returns the name and input of the event k positions
\* back from the head of the page.
C5_RuntimeErrorSelectsEvent ==
    (SinglePage /\ LocatorDone /\ ~ServiceFailed) =>
        LET page == failed_events[1]
            d == page[1].executionFailedEventDetails IN
        (d.present /\ ~d.empty /\ d.error = "States.Runtime" /\ d.tokens >= 14
            /\ d.digits >= 1 /\ d.digits < Len(page))
            => outcome = Return(page[d.digits + 1].name, page[d.digits + 1].input)

\* C9: however the events are split into pages, parse_failure_history ends as
\* it does when all events come in one page.
C9_PaginationIndependent ==
    (LocatorDone /\ ~ServiceFailed /\ Flatten(failed_events) # << >>)
        => outcome = parse_failure_history(<<Flatten(failed_events)>>)

\* C10: on a one-page history with ids n..1 and back-links to smaller ids,
\* every lookup finds the event whose id is the current id, the ids visited
\* decrease strictly, at most n events are visited, and the walk ends by
\* returning a step or by reaching id 0.
C10_WalkTerminates ==
    (SinglePage /\ GeneralHead(failed_events[1])) =>
        /\ \A i \in 1..Len(visited) : visited[i].ev.id = visited[i].cur
        /\ \A i, j \in 1..Len(visited) : i < j => visited[i].cur > visited[j].cur
        /\ Len(visited) <= Len(failed_events[1])
        /\ pc = "walk" =>
             /\ current_event_id = 0 \/ IndexOk(failed_events[1], current_event_id)
             /\ current_event_id < failed_events[1][1].id \/ visited = << >>
             /\ ENABLED (WalkStep \/ WalkExit)
        /\ (LocatorDone /\ ~ServiceFailed) =>
             \/ outcome.kind = "return"
             \/ outcome.kind = "none" /\ current_event_id = 0

\* A walk of three lookups over a skipped back-link that reached id 0.
C10_Witness ==
    /\ SinglePage /\ GeneralHead(failed_events[1])
    /\ LocatorDone
    /\ current_event_id = 0
    /\ Len(visited) >= 3
    /\ Len(visited) < Len(failed_events[1])

SourceDefinition == json_loads(response.definition)
RegisteredDefinition == json_loads(createRequest.definition)
Registered == pc \in {"attached", "start", "done", "raised"} /\ createRequest # NoRequest

\* C6: the registered definition starts at GoToState, a Choice step with the
\* single branch ($.resuming, BooleanEquals false) whose Next is the StartAt
\* of the source definition and whose Default is the failed step name.
C6_RedirectStepShape ==
    Registered =>
        /\ RegisteredDefinition.StartAt = "GoToState"
        /\ "GoToState" \in DOMAIN RegisteredDefinition.States
        /\ LET g == RegisteredDefinition.States["GoToState"] IN
           /\ DOMAIN g = {"Type", "Choices", "Default"}
           /\ g.Type = "Choice"
           /\ Len(g.Choices) = 1
           /\ g.Choices[1] = [Variable |-> "$.resuming", BooleanEquals |-> FALSE,
                              Next |-> SourceDefinition.StartAt]
           /\ g.Default = failed_state_name
           /\ SourceDefinition.StartAt # "GoToState" => g.Choices[1].Next # "GoToState"

\* A definition starting at B was registered for a failed step other than B.
C6_Witness ==
    /\ Registered
    /\ pc = "attached"
    /\ SourceDefinition.StartAt = "B"
    /\ failed_state_name = "A"
    /\ RegisteredDefinition.States["GoToState"].Choices[1].Next = "B"

\* C7: every step of the source definition is in the registered definition
\* with the same content, and the registered definition differs from the
\* source only in StartAt and one added States entry.
C7_SourceStepsKept ==
    Registered =>
        /\ \A k \in DOMAIN SourceDefinition.States :
             /\ k \in DOMAIN RegisteredDefinition.States
             /\ RegisteredDefinition.States[k] = SourceDefinition.States[k]
        /\ Cardinality(DOMAIN RegisteredDefinition.States)
             = Cardinality(DOMAIN SourceDefinition.States) + 1

Rank(op) ==
    CASE op = "get_execution_history" -> 1
      [] op = "describe_state_machine" -> 2
      [] op = "create_state_machine" -> 3
      [] op = "start_execution" -> 4

CallsOf(op) == {i \in 1..Len(calls) : calls[i].op = op}

\* C8: the external operations are issued in the order get_execution_history,
\* describe_state_machine, create_state_machine, start_execution, the last
\* three at most once, none after a failed one or after the locator yielded
\* no step, and start_execution targets what create_state_machine returned.
C8_FailFastOrder ==
    /\ \A i, j \in 1..Len(calls) : i < j => Rank(calls[i].op) <= Rank(calls[j].op)
    /\ \A op \in {"describe_state_machine", "create_state_machine", "start_execution"} :
         Cardinality(CallsOf(op)) <= 1
    /\ \A i \in 1..Len(calls) : i < Len(calls) => calls[i].ok
    /\ exc # "" => pc = "raised"
    /\ pc = "raised" => ~ENABLED MainNext
    /\ outcome.kind # "return" => \A i \in 1..Len(calls) : calls[i].op = "get_execution_history"
    /\ \A i \in CallsOf("start_execution") :
         \E j \in CallsOf("create_state_machine") :
             j < i /\ calls[j].ok /\ calls[i].arg = calls[j].arg /\ calls[i].arg = new_machine_arn

\* A whole run: the new machine was started.
C8_Witness ==
    /\ pc = "done"
    /\ Len(calls) = 4
    /\ calls[4].op = "start_execution"
    /\ calls[4].ok

====
